---- MODULE Spec2Model ----
(***************************************************************************)
(* Model of tornado_viewer.py: the explorer client (EtherscanAPI), the     *)
(* per-pool analysis (analyze_pool) and the cross-pool merge               *)
(* (analyze_tornado_cash).                                                 *)
(*                                                                         *)
(* Scaling.  Python integers are unbounded and the source works with       *)
(* 10**18 wei per ether and pages of 10000 entries.  The model counts wei  *)
(* in a coarser unit and pages in a smaller one, so that WEI_TO_ETH and    *)
(* offset are small numbers; only "divides exactly or not" and "page full  *)
(* or short" matter to the code.  A float is modelled by the exact         *)
(* quotient (whole part and remainder), so rounding of the binary float is *)
(* outside the model.  datetime.fromtimestamp is modelled for a fixed UTC  *)
(* offset (no daylight-saving jump).                                       *)
(***************************************************************************)
EXTENDS Integers, Sequences, FiniteSets, TLC

\* ---------------------------------------------------------------- bounds
\* longest transaction list served to a single fetch (SpecFetch)
MaxFetch == 4
\* most transactions on the chain of one pool (SpecPool)
MaxPoolTx == 2
\* most transactions on the chain over all pools (Spec)
MaxTx == 2
\* most transactions on the chain over all pools (SpecOrder)
MaxOrderTx == 2
\* most answers to "Enter your Etherscan API key" in a run (SpecMain)
MaxAttempts == 2
\* most menu choices in a run (SpecMain)
MaxRounds == 2

\* ------------------------------------------------------ program constants
\* EtherscanAPI.WEI_TO_ETH (10**18 in the source, scaled)
WEI_TO_ETH == 2
\* "offset": 10000 and len(data["result"]) < 10000 (scaled)
offset == 2
\* default end_block
DEFAULT_END_BLOCK == 99999999
\* seconds east of UTC of the local zone used by datetime.fromtimestamp
UTC_OFFSET == 3600
\* len(api_key) < 20
MIN_KEY_LEN == 20

PoolKeys == {"1_eth", "10_eth", "100_eth"}

TORNADO_CASH_POOLS ==
    [k \in PoolKeys |->
        CASE k = "1_eth"   -> [address |-> "0x47CE", denomination |-> 1,   name |-> "1 ETH"]
          [] k = "10_eth"  -> [address |-> "0x910C", denomination |-> 10,  name |-> "10 ETH"]
          [] k = "100_eth" -> [address |-> "0xA160", denomination |-> 100, name |-> "100 ETH"]]

\* ----------------------------------------------------------- conversions
\* str.lower() on the address strings of the model
lower(s) ==
    CASE s = "0x47CE" -> "0x47ce"
      [] s = "0x910C" -> "0x910c"
      [] s = "0xA160" -> "0xa160"
      [] s = "0xAAA"  -> "0xaaa"
      [] s = "0xBBB"  -> "0xbbb"
      [] s = "Y"      -> "y"
      [] OTHER        -> s

\* int() on the decimal strings of the model
int(s) ==
    CASE s = "0" -> 0
      [] s = "1" -> 1
      [] s = "2" -> 2
      [] s = "3" -> 3
      [] s = "4" -> 4

\* Optional values: None and a present value
None == << >>
Some(x) == << x >>

\* datetime.fromtimestamp(t): naive local time, as local seconds
fromtimestamp(t) == [local |-> t + UTC_OFFSET]

\* total_wei / WEI_TO_ETH as the exact quotient
ToEth(wei) == [whole |-> wei \div WEI_TO_ETH, frac |-> wei % WEI_TO_ETH]

\* a + b on two such quotients
AddEth(a, b) ==
    [whole |-> a.whole + b.whole + ((a.frac + b.frac) \div WEI_TO_ETH),
     frac  |-> (a.frac + b.frac) % WEI_TO_ETH]

Min2(a, b) == IF a <= b THEN a ELSE b
SetMin(S) == CHOOSE x \in S : \A y \in S : x <= y
SetMax(S) == CHOOSE x \in S : \A y \in S : y <= x
Range(f) == {f[x] : x \in DOMAIN f}

\* dict helpers
EmptyDict == << >>
Put(d, key, v) == [x \in (DOMAIN d) \cup {key} |-> IF x = key THEN v ELSE d[x]]

\* -------------------------------------------------------------- variables
VARIABLES
    entry,           \* the function the run calls
    chain,           \* explorer: pool key -> [internal, normal] transaction lists
    selected_pools,  \* analyze_tornado_cash argument
    start_date,      \* TRUE when a start date is given
    end_date,        \* TRUE when an end date is given
    pc,              \* position of the run
    start_block,
    end_block,
    k,               \* index of pool_key in selected_pools
    pool_results,
    merged,
    log,             \* pool keys whose "Error:" line was printed
    pool_key,        \* pool under analysis
    pool_address,    \* analyze_pool: lower-cased address
    internal_txs,
    normal_txs,
    recipients,
    i,               \* index of tx in the list being accumulated
    feed,            \* "txlistinternal" or "txlist"
    all_txs,
    page,
    pages,           \* pages requested by the current fetch, in order
    response,        \* _make_request: the explorer's answer to the last page request
    issued,          \* explorer actions requested so far
    merged_keys,     \* the keys of merged in insertion order (the dict's order)
    args,            \* main: the parsed command line
    CONFIG_FILE,     \* the "etherscan_api_key" the file holds ("" when none)
    api_key,         \* api_key of main and interactive_mode
    new_key,         \* the key typed in get_api_key / reset_api_key, stripped
    valid,           \* what validate_api_key returned for it ("" before any call)
    save_anyway,     \* the answer to "Save this API key anyway?", stripped and lowered
    export_file,     \* TRUE when the analysis has a CSV file to export to
    fn,              \* the key function that is running, "" when none
    in_menu,         \* TRUE once interactive_mode is entered
    attempts,        \* key prompts answered so far
    rounds,          \* menu choices made so far
    saved,           \* the number of save_config calls so far
    used_key,        \* the api_key argument of the last analyze_tornado_cash call
    stdout,          \* the "Error: ..." lines printed to standard output
    stderr,          \* the "Error: ..." lines printed to the error stream
    exit_code,       \* None while the process runs
    table,           \* the rows format_output printed, None before
    csv              \* the rows export_csv wrote after the header, None before

\* the state of main() around an analysis; the analysis itself never writes it
key_vars == << CONFIG_FILE, api_key, new_key, valid, save_anyway, fn, attempts, saved >>
out_vars == << stdout, stderr, exit_code, table, csv >>
main_vars == << args, key_vars, in_menu, rounds, used_key, export_file, out_vars >>
inputs == << entry, chain, selected_pools, start_date, end_date, main_vars >>
atc_vars == << start_block, end_block, k, pool_results, merged, merged_keys, log >>
pool_vars == << pool_key, pool_address, internal_txs, normal_txs, recipients, i >>
fetch_vars == << feed, all_txs, page, pages, response >>
vars == << inputs, atc_vars, pool_vars, fetch_vars, pc, issued >>


\* ------------------------------------------------------------- explorer
Feeds == {"txlistinternal", "txlist"}

\* the pool whose address an explorer request names (the explorer ignores case)
KeyOfAddress(a) ==
    CHOOSE key \in PoolKeys : lower(TORNADO_CASH_POOLS[key].address) = lower(a)

\* the transactions of `a` in the requested block range, as the explorer lists them
Served(a, action) == chain[KeyOfAddress(a)][action]

\* page p (of `offset` entries) of list L
PageOf(L, p) == SubSeq(L, (p - 1) * offset + 1, Min2(p * offset, Len(L)))

\* the explorer's answer to a page request that it serves
PageResponse(L, p) ==
    IF PageOf(L, p) = << >>
    THEN [http_ok |-> TRUE, status |-> "0", message |-> "No transactions found",
          result |-> << >>]
    ELSE [http_ok |-> TRUE, status |-> "1", message |-> "OK", result |-> PageOf(L, p)]

\* answers of a failing explorer: an HTTP failure, or an error status (the
\* error text that the explorer puts in "result" is left out)
FailureResponses ==
    { [http_ok |-> FALSE, status |-> "0", message |-> "", result |-> << >>],
      [http_ok |-> TRUE, status |-> "0", message |-> "NOTOK", result |-> << >>] }

\* every answer the explorer may give to a page request
PageOutcomes(L, p) == {PageResponse(L, p)} \cup FailureResponses

\* mutant: the status check is missing
make_request_raises_http_only(data) == ~data.http_ok

\* mutant: every status other than "1" raises
make_request_raises_any_nonsuccess(data) ==
    \/ ~data.http_ok
    \/ data.status # "1"

\* EtherscanAPI._make_request raises: raise_for_status, or the status check
make_request_raises(data) ==
    \/ ~data.http_ok
    \/ (data.status # "1" /\ data.message # "No transactions found")

\* ------------------------------------------------- exception propagation
\* the run is inside analyze_tornado_cash, called directly or from main
InTornadoCash == entry \in {"analyze_tornado_cash", "main"}

\* the locals of analyze_pool and of its fetches are gone once it is left
ResetPoolLocals ==
    /\ pool_address' = ""
    /\ internal_txs' = << >>
    /\ normal_txs' = << >>
    /\ recipients' = EmptyDict
    /\ i' = 0
    /\ feed' = ""
    /\ all_txs' = << >>
    /\ page' = 0
    /\ pages' = << >>

\* mutant: no try/except around analyze_pool
RaiseFromFetchUncaught ==
    /\ pc' = "raised"
    /\ pages' = Append(pages, page)
    /\ UNCHANGED << inputs, atc_vars, pool_vars, feed, all_txs, page >>

\* an exception leaves a fetch: analyze_tornado_cash catches it at the pool
\* boundary (pool_results[pool_key] = {}, next pool); any other caller of the
\* fetch lets it through
RaiseFromFetch ==
    IF InTornadoCash
    THEN /\ pool_results' = Put(pool_results, pool_key, EmptyDict)
         /\ log' = log \cup {pool_key}
         /\ k' = k + 1
         /\ pc' = "pools"
         /\ ResetPoolLocals
         /\ UNCHANGED << inputs, start_block, end_block, merged, merged_keys, pool_key >>
    ELSE /\ pc' = "raised"
         /\ pages' = Append(pages, page)
         /\ UNCHANGED << inputs, atc_vars, pool_vars, feed, all_txs, page >>

\* -------------------- get_internal_transactions / get_normal_transactions
\* mutant: the page replaces what was collected
ExtendReplaces(all, result) == result

\* all_txs.extend(data["result"])
Extend(all, result) == all \o result

\* mutant: a full page counts as the last one
short_page_or_full(result) == Len(result) <= offset

\* len(data["result"]) < 10000: the page is the last one
short_page(result) == Len(result) < offset

\* one turn of the while loop whose request is answered
get_transactions_page ==
    /\ pc = "fetch"
    /\ \E data \in PageOutcomes(Served(pool_address, feed), page) :
        /\ ~make_request_raises(data)
        /\ response' = Some(data)
        /\ pages' = Append(pages, page)
        /\ issued' = issued \cup {feed}
        /\ IF data.result # << >>
           THEN /\ all_txs' = Extend(all_txs, data.result)
                /\ IF short_page(data.result)
                   THEN /\ pc' = "fetched"
                        /\ page' = page
                   ELSE /\ pc' = "fetch"
                        /\ page' = page + 1
           ELSE /\ all_txs' = all_txs
                /\ pc' = "fetched"
                /\ page' = page
    /\ UNCHANGED << inputs, atc_vars, pool_vars, feed >>

\* one turn of the while loop whose request raises in _make_request
get_transactions_raises ==
    /\ pc = "fetch"
    /\ \E data \in PageOutcomes(Served(pool_address, feed), page) :
        /\ make_request_raises(data)
        /\ response' = IF InTornadoCash THEN None ELSE Some(data)
        /\ issued' = issued \cup {feed}
        /\ RaiseFromFetch

NextFetch == get_transactions_page \/ get_transactions_raises

\* ---------------------------------------------------------- analyze_pool
FetchEntries == {"get_internal_transactions", "get_normal_transactions"}

\* pool_address = pool_address.lower(); api.get_internal_transactions(...)
CallAnalyzePool(key) ==
    /\ pool_address' = lower(TORNADO_CASH_POOLS[key].address)
    /\ feed' = "txlistinternal"
    /\ all_txs' = << >>
    /\ page' = 1
    /\ pages' = << >>
    /\ response' = None
    /\ pc' = "fetch"
    /\ UNCHANGED << internal_txs, normal_txs, recipients, i >>

\* a direct call analyze_pool(api, TORNADO_CASH_POOLS[pool_key]["address"], ...)
analyze_pool_begin ==
    /\ pc = "analyze_pool"
    /\ CallAnalyzePool(pool_key)
    /\ UNCHANGED << inputs, atc_vars, pool_key, issued >>

\* internal_txs = <the list returned>; api.get_normal_transactions(...)
analyze_pool_internal_fetched ==
    /\ pc = "fetched"
    /\ entry \notin FetchEntries
    /\ feed = "txlistinternal"
    /\ internal_txs' = all_txs
    /\ feed' = "txlist"
    /\ all_txs' = << >>
    /\ page' = 1
    /\ pages' = << >>
    /\ response' = None
    /\ pc' = "fetch"
    /\ UNCHANGED << inputs, atc_vars, pool_key, pool_address, normal_txs, recipients, i,
                    issued >>

\* normal_txs = <the list returned>; recipients = defaultdict(...)
analyze_pool_normal_fetched ==
    /\ pc = "fetched"
    /\ entry \notin FetchEntries
    /\ feed = "txlist"
    /\ normal_txs' = all_txs
    /\ recipients' = EmptyDict
    /\ i' = 1
    /\ feed' = ""
    /\ all_txs' = << >>
    /\ page' = 0
    /\ pages' = << >>
    /\ response' = None
    /\ pc' = "accumulate"
    /\ UNCHANGED << inputs, atc_vars, pool_key, pool_address, internal_txs, issued >>

\* mutant: the sender is compared without lower()
is_withdrawal_cased(tx, addr) == tx.from = addr /\ int(tx.value) > 0

\* tx["from"].lower() == pool_address and int(tx["value"]) > 0
is_withdrawal(tx, addr) == lower(tx.from) = addr /\ int(tx.value) > 0

\* mutant: no sentinel for an absent receiver
to_addr_no_sentinel(tx) == lower(tx.to)

\* tx["to"].lower() if tx["to"] else "contract_creation"
to_addr(tx) == IF tx.to # "" THEN lower(tx.to) ELSE "contract_creation"

\* the defaultdict's value for a missing key
NewRecipient == [count |-> 0, total_wei |-> 0, transactions |-> << >>]

\* mutant: total_wei is assigned, not added to
AccumulateAssigns(rec, tx, type, addr) ==
    IF is_withdrawal(tx, addr)
    THEN LET key == to_addr(tx)
             value == int(tx.value)
             old == IF key \in DOMAIN rec THEN rec[key] ELSE NewRecipient
         IN Put(rec, key,
                [count |-> old.count + 1,
                 total_wei |-> value,
                 transactions |-> Append(old.transactions,
                                         [hash |-> tx.hash, value_wei |-> value,
                                          timestamp |-> int(tx.timeStamp),
                                          type |-> type])])
    ELSE rec

\* the body of either accumulation loop for one tx
Accumulate(rec, tx, type, addr) ==
    IF is_withdrawal(tx, addr)
    THEN LET key == to_addr(tx)
             value == int(tx.value)
             old == IF key \in DOMAIN rec THEN rec[key] ELSE NewRecipient
         IN Put(rec, key,
                [count |-> old.count + 1,
                 total_wei |-> old.total_wei + value,
                 transactions |-> Append(old.transactions,
                                         [hash |-> tx.hash, value_wei |-> value,
                                          timestamp |-> int(tx.timeStamp),
                                          type |-> type])])
    ELSE rec

\* The two for loops run one after the other; i counts the iterations of both:
\* 1..Len(normal_txs) are the first loop's, the ones after it the second loop's.

\* for tx in normal_txs: one iteration
normal_loop_step ==
    /\ pc = "accumulate"
    /\ i <= Len(normal_txs)
    /\ recipients' = Accumulate(recipients, normal_txs[i], "normal", pool_address)
    /\ i' = i + 1
    /\ UNCHANGED << inputs, atc_vars, pool_key, pool_address, internal_txs, normal_txs,
                    fetch_vars, pc, issued >>

\* for tx in internal_txs: one iteration
internal_loop_step ==
    /\ pc = "accumulate"
    /\ i > Len(normal_txs)
    /\ i <= Len(normal_txs) + Len(internal_txs)
    /\ recipients' = Accumulate(recipients, internal_txs[i - Len(normal_txs)], "internal",
                                pool_address)
    /\ i' = i + 1
    /\ UNCHANGED << inputs, atc_vars, pool_key, pool_address, internal_txs, normal_txs,
                    fetch_vars, pc, issued >>

\* return dict(recipients); in analyze_tornado_cash: pool_results[pool_key] = results
analyze_pool_return ==
    /\ pc = "accumulate"
    /\ i > Len(normal_txs) + Len(internal_txs)
    /\ IF InTornadoCash
       THEN /\ pool_results' = Put(pool_results, pool_key, recipients)
            /\ k' = k + 1
            /\ pc' = "pools"
            /\ ResetPoolLocals
            /\ response' = None
            /\ UNCHANGED << inputs, start_block, end_block, merged, merged_keys, log, pool_key, issued >>
       ELSE /\ pc' = "returned"
            /\ UNCHANGED << inputs, atc_vars, pool_vars, fetch_vars, issued >>

NextPool ==
    \/ get_transactions_page
    \/ get_transactions_raises
    \/ analyze_pool_begin
    \/ analyze_pool_internal_fetched
    \/ analyze_pool_normal_fetched
    \/ normal_loop_step
    \/ internal_loop_step
    \/ analyze_pool_return

\* -------------------------------------------------- analyze_tornado_cash
\* the explorer's answers to a getblocknobytime request
BlockOutcomes(closest) ==
    { [http_ok |-> TRUE, status |-> "1", message |-> "OK",
       result |-> IF closest = "after" THEN "1" ELSE "3"],
      [http_ok |-> FALSE, status |-> "0", message |-> "", result |-> ""],
      [http_ok |-> TRUE, status |-> "0", message |-> "NOTOK", result |-> ""] }

\* if start_date: start_block = api.get_block_by_timestamp(start_timestamp, "after")
resolve_start_block ==
    /\ pc = "start_date"
    /\ IF start_date
       THEN \E data \in BlockOutcomes("after") :
               /\ ~make_request_raises(data)
               /\ start_block' = int(data.result)
               /\ issued' = issued \cup {"getblocknobytime"}
       ELSE UNCHANGED << start_block, issued >>
    /\ pc' = "end_date"
    /\ UNCHANGED << inputs, end_block, k, pool_results, merged, merged_keys, log, pool_vars, fetch_vars >>

\* the start lookup raises out of analyze_tornado_cash
resolve_start_block_raises ==
    /\ pc = "start_date"
    /\ start_date
    /\ \E data \in BlockOutcomes("after") : make_request_raises(data)
    /\ issued' = issued \cup {"getblocknobytime"}
    /\ pc' = "raised"
    /\ UNCHANGED << inputs, atc_vars, pool_vars, fetch_vars >>

\* if end_date: end_block = api.get_block_by_timestamp(end_timestamp, "before")
resolve_end_block ==
    /\ pc = "end_date"
    /\ IF end_date
       THEN \E data \in BlockOutcomes("before") :
               /\ ~make_request_raises(data)
               /\ end_block' = int(data.result)
               /\ issued' = issued \cup {"getblocknobytime"}
       ELSE UNCHANGED << end_block, issued >>
    /\ k' = 1
    /\ pc' = "pools"
    /\ UNCHANGED << inputs, start_block, pool_results, merged, merged_keys, log, pool_vars, fetch_vars >>

\* mutant: the failed end lookup is swallowed and the default end_block is kept
resolve_end_block_swallowed ==
    /\ pc = "end_date"
    /\ end_date
    /\ \E data \in BlockOutcomes("before") : make_request_raises(data)
    /\ issued' = issued \cup {"getblocknobytime"}
    /\ k' = 1
    /\ pc' = "pools"
    /\ UNCHANGED << inputs, start_block, end_block, pool_results, merged, merged_keys, log, pool_vars,
                    fetch_vars >>

\* the end lookup raises out of analyze_tornado_cash
resolve_end_block_raises ==
    /\ pc = "end_date"
    /\ end_date
    /\ \E data \in BlockOutcomes("before") : make_request_raises(data)
    /\ issued' = issued \cup {"getblocknobytime"}
    /\ pc' = "raised"
    /\ UNCHANGED << inputs, atc_vars, pool_vars, fetch_vars >>

\* for pool_key in selected_pools: the next key; an unknown key is skipped, a
\* known one has analyze_pool called on its address
pool_loop_next ==
    /\ pc = "pools"
    /\ k <= Len(selected_pools)
    /\ pool_key' = selected_pools[k]
    /\ IF selected_pools[k] \notin DOMAIN TORNADO_CASH_POOLS
       THEN /\ k' = k + 1
            /\ pc' = "pools"
            /\ UNCHANGED << pool_address, internal_txs, normal_txs, recipients, i,
                            fetch_vars >>
       ELSE /\ k' = k
            /\ CallAnalyzePool(selected_pools[k])
    /\ UNCHANGED << inputs, start_block, end_block, pool_results, merged, merged_keys, log, issued >>

\* pool_results.get(key, {})
GetResults(key) == IF key \in DOMAIN pool_results THEN pool_results[key] ELSE EmptyDict

\* mutant: only the first selected pool's keys are collected
all_addresses_first_pool ==
    IF selected_pools = << >> THEN {} ELSE DOMAIN GetResults(selected_pools[1])

\* all_addresses after its update loop over selected_pools
all_addresses ==
    UNION {DOMAIN GetResults(selected_pools[n]) : n \in 1..Len(selected_pools)}

\* [tx["timestamp"] for tx in data["transactions"]]
Timestamps(data) == [n \in 1..Len(data.transactions) |-> data.transactions[n].timestamp]

\* mutant: the list is taken to be sorted by time
PoolDatesByPosition(timestamps) ==
    [first_date |-> Some(fromtimestamp(timestamps[1])),
     last_date |-> Some(fromtimestamp(timestamps[Len(timestamps)]))]

\* min(timestamps) and max(timestamps) of one pool, as dates
PoolDates(timestamps) ==
    [first_date |-> Some(fromtimestamp(SetMin(Range(timestamps)))),
     last_date |-> Some(fromtimestamp(SetMax(Range(timestamps))))]

\* mutant: the concatenation is taken to be sorted by time
OverallDatesByPosition(all_timestamps) ==
    [first_date |-> Some(fromtimestamp(all_timestamps[1])),
     last_date |-> Some(fromtimestamp(all_timestamps[Len(all_timestamps)]))]

\* min(all_timestamps) and max(all_timestamps), as dates
OverallDates(all_timestamps) ==
    [first_date |-> Some(fromtimestamp(SetMin(Range(all_timestamps)))),
     last_date |-> Some(fromtimestamp(SetMax(Range(all_timestamps))))]

\* mutant: only the first pool of the selection counts as selected
SelectedFirst(key) == selected_pools # << >> /\ selected_pools[1] = key

\* "<key>" in selected_pools
Selected(key) == key \in Range(selected_pools)

\* one "if <key> in selected_pools and address in pool_results.get(<key>, {})" block:
\* the four fields it leaves in merged[address] and what it adds to all_timestamps
PoolPart(key, address) ==
    IF Selected(key) /\ address \in DOMAIN GetResults(key)
    THEN LET data == pool_results[key][address]
             timestamps == Timestamps(data)
         IN [count |-> data.count,
             total |-> ToEth(data.total_wei),
             first_date |-> IF timestamps # << >>
                            THEN PoolDates(timestamps).first_date ELSE None,
             last_date |-> IF timestamps # << >>
                           THEN PoolDates(timestamps).last_date ELSE None,
             timestamps |-> timestamps]
    ELSE [count |-> 0, total |-> ToEth(0), first_date |-> None, last_date |-> None,
          timestamps |-> << >>]

\* mutant: the totals are summed once per entry of selected_pools
RECURSIVE SumOverSelection(_, _, _, _)
SumOverSelection(n, p1, p10, p100) ==
    IF n = 0 THEN ToEth(0)
    ELSE AddEth(SumOverSelection(n - 1, p1, p10, p100),
                CASE selected_pools[n] = "1_eth" -> p1.total
                  [] selected_pools[n] = "10_eth" -> p10.total
                  [] selected_pools[n] = "100_eth" -> p100.total
                  [] OTHER -> ToEth(0))

GrandTotalOverSelection(p1, p10, p100) ==
    SumOverSelection(Len(selected_pools), p1, p10, p100)

\* mutant: the 100 ETH total is left out of the sum
GrandTotalTwoPools(p1, p10, p100) == AddEth(p1.total, p10.total)

\* grand_total = 1_eth_total + 10_eth_total + 100_eth_total
GrandTotal(p1, p10, p100) == AddEth(AddEth(p1.total, p10.total), p100.total)

\* the body of "for address in all_addresses": merged[address]
MergeRecord(address) ==
    LET p1 == PoolPart("1_eth", address)
        p10 == PoolPart("10_eth", address)
        p100 == PoolPart("100_eth", address)
        all_timestamps == p1.timestamps \o p10.timestamps \o p100.timestamps
    IN [1_eth_count |-> p1.count,
        1_eth_total |-> p1.total,
        1_eth_first_date |-> p1.first_date,
        1_eth_last_date |-> p1.last_date,
        10_eth_count |-> p10.count,
        10_eth_total |-> p10.total,
        10_eth_first_date |-> p10.first_date,
        10_eth_last_date |-> p10.last_date,
        100_eth_count |-> p100.count,
        100_eth_total |-> p100.total,
        100_eth_first_date |-> p100.first_date,
        100_eth_last_date |-> p100.last_date,
        grand_total |-> GrandTotal(p1, p10, p100),
        first_date |-> IF all_timestamps # << >>
                       THEN OverallDates(all_timestamps).first_date ELSE None,
        last_date |-> IF all_timestamps # << >>
                      THEN OverallDates(all_timestamps).last_date ELSE None]

\* the pool loop is exhausted; merged = {}; all_addresses is built
pool_loop_end ==
    /\ pc = "pools"
    /\ k > Len(selected_pools)
    /\ merged' = EmptyDict
    /\ merged_keys' = << >>
    /\ pc' = "merge"
    /\ UNCHANGED << inputs, start_block, end_block, k, pool_results, log, pool_vars,
                    fetch_vars, issued >>

\* for address in all_addresses: one iteration (a set is iterated in any order)
merge_address ==
    /\ pc = "merge"
    /\ \E address \in all_addresses \ DOMAIN merged :
          /\ merged' = Put(merged, address, MergeRecord(address))
          /\ merged_keys' = Append(merged_keys, address)
    /\ UNCHANGED << inputs, start_block, end_block, k, pool_results, log, pool_vars,
                    fetch_vars, pc, issued >>

\* return merged
merge_return ==
    /\ pc = "merge"
    /\ all_addresses \subseteq DOMAIN merged
    /\ pc' = "returned"
    /\ UNCHANGED << inputs, atc_vars, pool_vars, fetch_vars, issued >>

Next ==
    \/ resolve_start_block
    \/ resolve_start_block_raises
    \/ resolve_end_block
    \/ resolve_end_block_raises
    \/ pool_loop_next
    \/ get_transactions_page
    \/ get_transactions_raises
    \/ analyze_pool_internal_fetched
    \/ analyze_pool_normal_fetched
    \/ normal_loop_step
    \/ internal_loop_step
    \/ analyze_pool_return
    \/ pool_loop_end
    \/ merge_address
    \/ merge_return

\* ------------------------------------------------------------ SpecFetch
\* the command line of a run that does not go through main
NoArgs == [reset_key |-> FALSE, has_date_option |-> FALSE, pools |-> << >>, export |-> FALSE]

\* main() is not part of the run
MainIdle ==
    /\ merged_keys = << >>
    /\ args = NoArgs
    /\ CONFIG_FILE = ""
    /\ api_key = ""
    /\ new_key = ""
    /\ valid = ""
    /\ save_anyway = ""
    /\ export_file = FALSE
    /\ fn = ""
    /\ in_menu = FALSE
    /\ attempts = 0
    /\ rounds = 0
    /\ saved = 0
    /\ used_key = ""
    /\ stdout = << >>
    /\ stderr = << >>
    /\ exit_code = None
    /\ table = None
    /\ csv = None

\* transactions as the explorer's JSON gives them
Tx(h, f, t, v, ts) == [hash |-> h, from |-> f, to |-> t, value |-> v, timeStamp |-> ts]

NoChain == [key \in PoolKeys |-> [a \in Feeds |-> << >>]]

RECURSIVE SeqsUpTo(_, _)
SeqsUpTo(S, n) ==
    IF n = 0 THEN {<< >>}
    ELSE LET shorter == SeqsUpTo(S, n - 1)
         IN shorter \cup {Append(s, x) : s \in {t \in shorter : Len(t) = n - 1}, x \in S}

\* the hash of the j-th transaction of a list
HashAt(j) == CASE j = 1 -> "0xh1" [] j = 2 -> "0xh2" [] j = 3 -> "0xh3"
               [] j = 4 -> "0xh4" [] j = 5 -> "0xh5" [] OTHER -> "0xh6"

FetchTxs(key) ==
    {Tx("", f, "0xaaa", v, "1") : f \in {lower(TORNADO_CASH_POOLS[key].address), "0xddd"},
                                  v \in {"0", "1"}}

WithHashes(L) == [j \in 1..Len(L) |-> [L[j] EXCEPT !.hash = HashAt(j)]]

\* a single call get_internal_transactions(address) or get_normal_transactions(address)
InitFetch ==
    /\ entry \in {"get_internal_transactions", "get_normal_transactions"}
    /\ pool_key = "1_eth"
    /\ feed = IF entry = "get_internal_transactions" THEN "txlistinternal" ELSE "txlist"
    /\ \E L \in SeqsUpTo(FetchTxs(pool_key), MaxFetch) :
         chain = [NoChain EXCEPT ![pool_key][feed] = WithHashes(L)]
    /\ selected_pools = << >>
    /\ start_date = FALSE
    /\ end_date = FALSE
    /\ pc = "fetch"
    /\ start_block = 0
    /\ end_block = DEFAULT_END_BLOCK
    /\ k = 0
    /\ pool_results = EmptyDict
    /\ merged = EmptyDict
    /\ log = {}
    /\ pool_address = TORNADO_CASH_POOLS[pool_key].address
    /\ internal_txs = << >>
    /\ normal_txs = << >>
    /\ recipients = EmptyDict
    /\ i = 0
    /\ all_txs = << >>
    /\ page = 1
    /\ pages = << >>
    /\ response = None
    /\ issued = {}
    /\ MainIdle

SpecFetch == InitFetch /\ [][NextFetch]_vars

\* the same call against an explorer that answers every request; the while loop
\* runs on as long as it can
ReliableFetch ==
    InitFetch /\ [][get_transactions_page]_vars /\ WF_vars(get_transactions_page)


\* --------------------------------------------------------------- SpecPool
\* what a pool's feeds may hold: the pool (in either case) or another sender,
\* a receiver in either case or none, a zero or a positive value
PoolTxs(key) ==
    {Tx("0xh", f, t, v, "1") :
        f \in {TORNADO_CASH_POOLS[key].address, lower(TORNADO_CASH_POOLS[key].address), "0xddd"},
        t \in {"0xAAA", "0xaaa", ""},
        v \in {"0", "2"}}

\* a single call analyze_pool(api, TORNADO_CASH_POOLS[pool_key]["address"], ...)
InitPool ==
    /\ entry = "analyze_pool"
    /\ pool_key = "1_eth"
    /\ \E L \in SeqsUpTo(PoolTxs(pool_key), MaxPoolTx) : \E j \in 0..Len(L) :
         chain = [NoChain EXCEPT ![pool_key] =
                     [a \in Feeds |-> IF a = "txlist" THEN SubSeq(L, 1, j)
                                      ELSE SubSeq(L, j + 1, Len(L))]]
    /\ selected_pools = << >>
    /\ start_date = FALSE
    /\ end_date = FALSE
    /\ pc = "analyze_pool"
    /\ start_block = 0
    /\ end_block = DEFAULT_END_BLOCK
    /\ k = 0
    /\ pool_results = EmptyDict
    /\ merged = EmptyDict
    /\ log = {}
    /\ pool_address = ""
    /\ internal_txs = << >>
    /\ normal_txs = << >>
    /\ recipients = EmptyDict
    /\ i = 0
    /\ feed = ""
    /\ all_txs = << >>
    /\ page = 0
    /\ pages = << >>
    /\ response = None
    /\ issued = {}
    /\ MainIdle

SpecPool == InitPool /\ [][NextPool]_vars


\* ------------------------------------------------------------------- Spec
\* withdrawals of a pool: to one of two recipients, a fraction of an ether early
\* or more than an ether later
MainTxs(key) ==
    {Tx("0xh", lower(TORNADO_CASH_POOLS[key].address), t, vt[1], vt[2]) :
        t \in {"0xaaa", "0xbbb"}, vt \in {<< "1", "1" >>, << "3", "2" >>}}

\* where a transaction may sit: the internal feed of any pool (a contract pays
\* out by internal transactions) and, for one pool, the normal feed as well
Slots ==
    {e \in [key : PoolKeys, feed : Feeds, tx : UNION {MainTxs(q) : q \in PoolKeys}] :
        /\ e.tx \in MainTxs(e.key)
        /\ e.feed = "txlist" => e.key = "10_eth"}

\* the chain that holds the transactions of L, each in its slot, in L's order
ChainOf(L) ==
    [key \in PoolKeys |-> [a \in Feeds |->
        LET mine == SelectSeq(L, LAMBDA e : e.key = key /\ e.feed = a)
        IN [n \in 1..Len(mine) |-> mine[n].tx]]]

\* at most MaxTx transactions, anywhere on the chain
FewTxChains ==
    {ChainOf(L) : L \in SeqsUpTo(Slots, MaxTx)}

\* one internal transaction in each of the three pools
SpreadChains ==
    {[key \in PoolKeys |-> [a \in Feeds |->
         IF a = "txlistinternal" THEN << pick[key] >> ELSE << >>]] :
       pick \in {f \in [PoolKeys -> UNION {MainTxs(q) : q \in PoolKeys}] :
                    \A key \in PoolKeys : f[key] \in MainTxs(key)}}

Chains == FewTxChains \cup SpreadChains

\* the selections of select_pools and --pools, the empty one, and one that names
\* a key TORNADO_CASH_POOLS does not have
Selections ==
    { << >>, << "5_eth", "10_eth" >>, << "1_eth" >>, << "10_eth" >>, << "100_eth" >>, << "1_eth", "10_eth" >>,
      << "1_eth", "100_eth" >>, << "10_eth", "100_eth" >>,
      << "1_eth", "10_eth", "100_eth" >> }

\* a call analyze_tornado_cash(api_key, start_date, end_date, selected_pools)
Init ==
    /\ entry = "analyze_tornado_cash"
    /\ chain \in Chains
    /\ selected_pools \in Selections
    /\ start_date \in BOOLEAN
    /\ end_date \in BOOLEAN
    /\ pc = "start_date"
    /\ start_block = 0
    /\ end_block = DEFAULT_END_BLOCK
    /\ k = 0
    /\ pool_results = EmptyDict
    /\ merged = EmptyDict
    /\ log = {}
    /\ pool_key = ""
    /\ pool_address = ""
    /\ internal_txs = << >>
    /\ normal_txs = << >>
    /\ recipients = EmptyDict
    /\ i = 0
    /\ feed = ""
    /\ all_txs = << >>
    /\ page = 0
    /\ pages = << >>
    /\ response = None
    /\ issued = {}
    /\ MainIdle

Spec == Init /\ [][Next]_vars


\* -------------------------------------------------------------- SpecOrder
\* withdrawals of a pool for the order runs: two to one recipient at different
\* times and of different value, one to another recipient
OrderTxs(key) ==
    {Tx("0xh", lower(TORNADO_CASH_POOLS[key].address), e[1], e[2], e[3]) :
        e \in {<< "0xaaa", "1", "1" >>, << "0xaaa", "3", "2" >>, << "0xbbb", "1", "2" >>}}

\* either feed of the 1 ETH and of the 10 ETH pool
OrderSlots ==
    {e \in [key : {"1_eth", "10_eth"}, feed : Feeds,
            tx : OrderTxs("1_eth") \cup OrderTxs("10_eth")] : e.tx \in OrderTxs(e.key)}

\* every arrangement of at most MaxOrderTx transactions: any order within a
\* feed, either feed
OrderChains == {ChainOf(L) : L \in SeqsUpTo(OrderSlots, MaxOrderTx)}

\* selections in either order, and selections that name a pool twice (--pools 1,1)
OrderSelections ==
    { << "1_eth", "10_eth" >>, << "10_eth", "1_eth" >>,
      << "1_eth" >>, << "1_eth", "1_eth" >>,
      << "10_eth", "1_eth", "10_eth" >>, << "1_eth", "10_eth", "100_eth" >> }

\* analyze_tornado_cash(api_key, None, None, selected_pools) against an explorer
\* that answers every request
InitOrder ==
    /\ entry = "analyze_tornado_cash"
    /\ chain \in OrderChains
    /\ selected_pools \in OrderSelections
    /\ start_date = FALSE
    /\ end_date = FALSE
    /\ pc = "start_date"
    /\ start_block = 0
    /\ end_block = DEFAULT_END_BLOCK
    /\ k = 0
    /\ pool_results = EmptyDict
    /\ merged = EmptyDict
    /\ log = {}
    /\ pool_key = ""
    /\ pool_address = ""
    /\ internal_txs = << >>
    /\ normal_txs = << >>
    /\ recipients = EmptyDict
    /\ i = 0
    /\ feed = ""
    /\ all_txs = << >>
    /\ page = 0
    /\ pages = << >>
    /\ response = None
    /\ issued = {}
    /\ MainIdle

NextOrder ==
    \/ resolve_start_block
    \/ resolve_end_block
    \/ pool_loop_next
    \/ get_transactions_page
    \/ analyze_pool_internal_fetched
    \/ analyze_pool_normal_fetched
    \/ normal_loop_step
    \/ internal_loop_step
    \/ analyze_pool_return
    \/ pool_loop_end
    \/ merge_address
    \/ merge_return

SpecOrder == InitOrder /\ [][NextOrder]_vars


\* ------------------------------------------------------- API key functions
\* str.strip() on the lines typed in the model
strip(s) ==
    CASE s = "KEYB " -> "KEYB"
      [] s = " Y"    -> "Y"
      [] OTHER       -> s

\* len() on the keys of the model (an Etherscan key has 34 characters)
len(s) ==
    CASE s = ""    -> 0
      [] s = "abc" -> 3
      [] OTHER     -> 34

\* the lines a user types at a key prompt
KeyLines == {"", "abc", "KEYB ", "KEYC"}

\* the lines a user types at the "Save this API key anyway? (y/N)" prompt
YesNoLines == {"y", " Y", "n", ""}

\* what requests.get(...ethsupply...) and response.json() give validate_api_key:
\* an exception, or the JSON of the answer
ValidateResponses ==
    { [exc |-> "Timeout", status |-> "", message |-> "", result |-> ""],
      [exc |-> "ConnectionError", status |-> "", message |-> "", result |-> ""],
      [exc |-> "", status |-> "1", message |-> "OK", result |-> "120000000"],
      [exc |-> "", status |-> "0", message |-> "NOTOK", result |-> "Invalid API Key"],
      [exc |-> "", status |-> "0", message |-> "NOTOK", result |-> "Max rate limit reached"],
      [exc |-> "", status |-> "0", message |-> "", result |-> ""] }

\* validate_api_key: the first component of the tuple it returns
validate_api_key(data) ==
    IF data.exc # "" THEN "None"
    ELSE IF data.message = "NOTOK" THEN "False"
    ELSE IF data.status = "1" THEN "True"
    ELSE "True"

\* mutant: anything but an invalid key counts as accepted
is_True_or_None(v) == v # "False"

\* valid is True
is_True(v) == v = "True"

\* config["etherscan_api_key"] = key; save_config(config)
save_config(key) ==
    /\ CONFIG_FILE' = key
    /\ saved' = saved + 1

\* main goes on after api_key = get_api_key(): interactive_mode without a date
\* option, the command-line run with one; inside interactive_mode, the menu
AfterGetApiKey == IF in_menu \/ ~args.has_date_option THEN "menu" ELSE "cli"

\* return api_key from get_api_key
ReturnFromGetApiKey(key) ==
    /\ api_key' = key
    /\ fn' = ""
    /\ in_menu' = (in_menu \/ ~args.has_date_option)
    /\ pc' = AfterGetApiKey

\* mutant: interactive_mode keeps its api_key after reset_api_key()
ReturnFromResetKeepsKey ==
    /\ api_key' = api_key
    /\ in_menu' = in_menu
    /\ exit_code' = IF in_menu THEN exit_code ELSE Some(0)
    /\ fn' = ""
    /\ pc' = IF in_menu THEN "menu" ELSE "exited"

\* reset_api_key returns: interactive_mode calls api_key = get_api_key() next,
\* main (--reset-key) returns and the process ends
ReturnFromReset ==
    /\ api_key' = api_key
    /\ in_menu' = in_menu
    /\ exit_code' = IF in_menu THEN exit_code ELSE Some(0)
    /\ fn' = IF in_menu THEN "get_api_key" ELSE ""
    /\ pc' = IF in_menu THEN "get_api_key" ELSE "exited"

analysis_vars == << chain, selected_pools, start_date, end_date, atc_vars, pool_vars,
                    fetch_vars, issued >>

\* main(): --reset-key calls reset_api_key, anything else get_api_key
main_begin ==
    /\ pc = "main"
    /\ fn' = IF args.reset_key THEN "reset_api_key" ELSE "get_api_key"
    /\ pc' = IF args.reset_key THEN "reset_api_key" ELSE "get_api_key"
    /\ UNCHANGED << entry, args, CONFIG_FILE, api_key, new_key, valid, save_anyway, attempts,
                    saved, in_menu, rounds, used_key, export_file, out_vars, analysis_vars >>

\* get_api_key: the stored key is returned
get_api_key_stored ==
    /\ pc = "get_api_key"
    /\ CONFIG_FILE # ""
    /\ ReturnFromGetApiKey(CONFIG_FILE)
    /\ UNCHANGED << entry, args, CONFIG_FILE, new_key, valid, save_anyway, attempts, saved,
                    rounds, used_key, export_file, out_vars, analysis_vars >>

\* mutant: with a date option and no stored key the run is aborted
get_api_key_setup_aborts ==
    /\ pc = "get_api_key"
    /\ CONFIG_FILE = ""
    /\ pc' = IF args.has_date_option THEN "exited" ELSE "enter_key"
    /\ exit_code' = IF args.has_date_option THEN Some(1) ELSE exit_code
    /\ UNCHANGED << entry, args, key_vars, in_menu, rounds, used_key, export_file, stdout,
                    stderr, table, csv, analysis_vars >>

\* get_api_key: no stored key, the setup text is printed and the prompt loop entered
get_api_key_setup ==
    /\ pc = "get_api_key"
    /\ CONFIG_FILE = ""
    /\ pc' = "enter_key"
    /\ exit_code' = exit_code
    /\ UNCHANGED << entry, args, key_vars, in_menu, rounds, used_key, export_file, stdout,
                    stderr, table, csv, analysis_vars >>

\* get_api_key: one turn of the while loop up to the save-anyway question
get_api_key_input ==
    /\ pc = "enter_key"
    /\ attempts < MaxAttempts
    /\ attempts' = attempts + 1
    /\ save_anyway' = ""
    /\ \E line \in KeyLines :
         LET key == strip(line)
         IN /\ new_key' = key
            /\ IF key = "" \/ len(key) < MIN_KEY_LEN
               THEN /\ valid' = ""
                    /\ UNCHANGED << CONFIG_FILE, saved, api_key, fn, in_menu, pc >>
               ELSE \E data \in ValidateResponses :
                      /\ valid' = validate_api_key(data)
                      /\ IF is_True(validate_api_key(data))
                         THEN /\ save_config(key)
                              /\ ReturnFromGetApiKey(key)
                         ELSE /\ pc' = IF validate_api_key(data) = "False"
                                       THEN "enter_key" ELSE "save_anyway"
                              /\ UNCHANGED << CONFIG_FILE, saved, api_key, fn, in_menu >>
    /\ UNCHANGED << entry, args, rounds, used_key, export_file, out_vars, analysis_vars >>

\* reset_api_key up to the save-anyway question
reset_api_key_input ==
    /\ pc = "reset_api_key"
    /\ save_anyway' = ""
    /\ \E line \in KeyLines :
         LET key == strip(line)
         IN /\ new_key' = key
            /\ IF key = ""
               THEN /\ valid' = ""
                    /\ ReturnFromReset
                    /\ UNCHANGED << CONFIG_FILE, saved >>
               ELSE \E data \in ValidateResponses :
                      /\ valid' = validate_api_key(data)
                      /\ IF is_True(validate_api_key(data))
                         THEN /\ save_config(key)
                              /\ ReturnFromReset
                         ELSE IF validate_api_key(data) = "False"
                         THEN /\ ReturnFromReset
                              /\ UNCHANGED << CONFIG_FILE, saved >>
                         ELSE /\ pc' = "save_anyway"
                              /\ UNCHANGED << CONFIG_FILE, saved, api_key, fn, in_menu,
                                              exit_code >>
    /\ UNCHANGED << entry, args, attempts, rounds, used_key, export_file, stdout, stderr,
                    table, csv, analysis_vars >>

\* the answer to "Save this API key anyway? (y/N)" in get_api_key
get_api_key_save_anyway ==
    /\ pc = "save_anyway"
    /\ fn = "get_api_key"
    /\ \E line \in YesNoLines :
         /\ save_anyway' = lower(strip(line))
         /\ IF lower(strip(line)) = "y"
            THEN /\ save_config(new_key)
                 /\ ReturnFromGetApiKey(new_key)
            ELSE /\ pc' = "enter_key"
                 /\ UNCHANGED << CONFIG_FILE, saved, api_key, fn, in_menu >>
    /\ UNCHANGED << entry, args, new_key, valid, attempts, rounds, used_key, export_file,
                    out_vars, analysis_vars >>

\* the answer to "Save this API key anyway? (y/N)" in reset_api_key
reset_api_key_save_anyway ==
    /\ pc = "save_anyway"
    /\ fn = "reset_api_key"
    /\ \E line \in YesNoLines :
         /\ save_anyway' = lower(strip(line))
         /\ IF lower(strip(line)) = "y"
            THEN save_config(new_key)
            ELSE UNCHANGED << CONFIG_FILE, saved >>
    /\ ReturnFromReset
    /\ UNCHANGED << entry, args, new_key, valid, attempts, rounds, used_key, export_file,
                    stdout, stderr, table, csv, analysis_vars >>

\* ------------------------------------------- format_output and export_csv
\* a float total as a number of the model's wei, for comparisons
Units(e) == e.whole * WEI_TO_ETH + e.frac

\* f"{x:.2f}": the amount rounded, half to even, to the digits the table shows.
\* The table's last digit is coarser than a wei; with the model's scaled wei it
\* is a whole ether.
fmt_2f(e) ==
    IF 2 * e.frac < WEI_TO_ETH THEN e.whole
    ELSE IF 2 * e.frac > WEI_TO_ETH THEN e.whole + 1
    ELSE IF e.whole % 2 = 0 THEN e.whole ELSE e.whole + 1

\* dt.strftime("%Y-%m-%d") on the dates of the model
strftime(d) == IF d.local \div 86400 = 0 THEN "1970-01-01" ELSE "1970-01-02"

\* the two fmt_date helpers
fmt_date_table(dt) == IF dt # None THEN strftime(dt[1]) ELSE "-"
fmt_date_csv(dt) == IF dt # None THEN strftime(dt[1]) ELSE ""

\* stats["<key>_count"] and the other three fields of one pool
StatsOf(stats, key) ==
    CASE key = "1_eth" ->
           [count |-> stats.1_eth_count, total |-> stats.1_eth_total,
            first_date |-> stats.1_eth_first_date, last_date |-> stats.1_eth_last_date]
      [] key = "10_eth" ->
           [count |-> stats.10_eth_count, total |-> stats.10_eth_total,
            first_date |-> stats.10_eth_first_date, last_date |-> stats.10_eth_last_date]
      [] key = "100_eth" ->
           [count |-> stats.100_eth_count, total |-> stats.100_eth_total,
            first_date |-> stats.100_eth_first_date, last_date |-> stats.100_eth_last_date]

\* the pools whose columns are written: the "if <key> in selected_pools" tests
Columns(sel) == {key \in PoolKeys : key \in Range(sel)}

\* sorted(..., key=grand_total, reverse=True): a stable sort, so x goes behind
\* every element that is not smaller
RECURSIVE InsertDesc(_, _, _)
InsertDesc(sorted, x, results) ==
    IF sorted = << >> THEN << x >>
    ELSE IF Units(results[sorted[1]].grand_total) >= Units(results[x].grand_total)
         THEN << sorted[1] >> \o InsertDesc(Tail(sorted), x, results)
         ELSE << x >> \o sorted

RECURSIVE sorted_recipients(_, _)
sorted_recipients(keys, results) ==
    IF keys = << >> THEN << >>
    ELSE InsertDesc(sorted_recipients(SubSeq(keys, 1, Len(keys) - 1), results),
                    keys[Len(keys)], results)

\* the rows format_output prints for `results`, whose keys are `keys` in dict order
format_output_rows(keys, results, sel) ==
    IF keys = << >> THEN << >>
    ELSE LET shown == SelectSeq(keys, LAMBDA a : Units(results[a].grand_total) > 0)
             order == sorted_recipients(shown, results)
         IN [n \in 1..Len(order) |->
               [address |-> order[n],
                pools |-> [key \in Columns(sel) |->
                             LET f == StatsOf(results[order[n]], key)
                             IN [count |-> f.count, total |-> fmt_2f(f.total),
                                 first_date |-> fmt_date_table(f.first_date),
                                 last_date |-> fmt_date_table(f.last_date)]],
                grand_total |-> fmt_2f(results[order[n]].grand_total)]]

\* mutant: the rows are written in dict order
export_csv_rows_unsorted(keys, results, sel) ==
    [n \in 1..Len(keys) |->
       [address |-> keys[n],
        pools |-> [key \in Columns(sel) |->
                     LET f == StatsOf(results[keys[n]], key)
                     IN [count |-> f.count, total |-> f.total,
                         first_date |-> fmt_date_csv(f.first_date),
                         last_date |-> fmt_date_csv(f.last_date)]],
        grand_total |-> results[keys[n]].grand_total,
        first_date |-> fmt_date_csv(results[keys[n]].first_date),
        last_date |-> fmt_date_csv(results[keys[n]].last_date)]]

\* the rows export_csv writes after the header
export_csv_rows(keys, results, sel) ==
    LET order == sorted_recipients(keys, results)
    IN [n \in 1..Len(order) |->
          [address |-> order[n],
           pools |-> [key \in Columns(sel) |->
                        LET f == StatsOf(results[order[n]], key)
                        IN [count |-> f.count, total |-> f.total,
                            first_date |-> fmt_date_csv(f.first_date),
                            last_date |-> fmt_date_csv(f.last_date)]],
           grand_total |-> results[order[n]].grand_total,
           first_date |-> fmt_date_csv(results[order[n]].first_date),
           last_date |-> fmt_date_csv(results[order[n]].last_date)]]

\* format_output(results, selected_pools=selected_pools), then the export test
format_output ==
    /\ entry = "main"
    /\ pc = "returned"
    /\ table' = Some(format_output_rows(merged_keys, merged, selected_pools))
    /\ pc' = IF export_file THEN "export_csv" ELSE "try_done"
    /\ UNCHANGED << entry, args, key_vars, in_menu, rounds, used_key, export_file, stdout,
                    stderr, exit_code, csv, analysis_vars >>

\* export_csv(results, export_file, selected_pools=selected_pools): the file is written
export_csv ==
    /\ pc = "export_csv"
    /\ csv' = Some(export_csv_rows(merged_keys, merged, selected_pools))
    /\ pc' = "try_done"
    /\ UNCHANGED << entry, args, key_vars, in_menu, rounds, used_key, export_file, stdout,
                    stderr, exit_code, table, analysis_vars >>

\* export_csv: open(filename, 'w') raises OSError
export_csv_raises ==
    /\ pc = "export_csv"
    /\ pc' = "raised"
    /\ UNCHANGED << entry, main_vars, analysis_vars >>

\* ------------------------------------- main, interactive_mode, run_analysis
AllPools == << "1_eth", "10_eth", "100_eth" >>

\* select_pools(): the list for the menu line typed and, for the custom
\* selection, for the three y/N answers
select_pools(line, custom) ==
    LET choice == IF strip(line) = "" THEN "1" ELSE strip(line)
    IN CASE choice = "1" -> AllPools
         [] choice = "2" -> << "1_eth" >>
         [] choice = "3" -> << "10_eth" >>
         [] choice = "4" -> << "100_eth" >>
         [] choice = "5" -> << "1_eth", "10_eth" >>
         [] choice = "6" -> << "1_eth", "100_eth" >>
         [] choice = "7" -> << "10_eth", "100_eth" >>
         [] choice = "8" ->
              LET selected == SelectSeq(AllPools, LAMBDA key : custom[key])
              IN IF selected = << >> THEN AllPools ELSE selected
         [] OTHER -> AllPools

\* the answers to select_pools() that the model draws
PoolLines == {"", "3", "8"}
CustomAnswers == {[key \in PoolKeys |-> key = "10_eth"]}

\* main: the --pools tokens, one key per known token, all pools when none is known
RECURSIVE PoolsOfTokens(_)
PoolsOfTokens(tokens) ==
    IF tokens = << >> THEN << >>
    ELSE LET p == tokens[1]
         IN (CASE p = "1" -> << "1_eth" >>
               [] p = "10" -> << "10_eth" >>
               [] p = "100" -> << "100_eth" >>
               [] OTHER -> << >>) \o PoolsOfTokens(Tail(tokens))

ParsePools(tokens) ==
    IF PoolsOfTokens(tokens) = << >> THEN AllPools ELSE PoolsOfTokens(tokens)

\* the call analyze_tornado_cash(api_key, start_date, end_date, selected_pools) of
\* a try block
CallAnalyzeTornadoCash(sel, sd, ed, exp) ==
    /\ selected_pools' = sel
    /\ start_date' = sd
    /\ end_date' = ed
    /\ export_file' = exp
    /\ used_key' = api_key
    /\ start_block' = 0
    /\ end_block' = DEFAULT_END_BLOCK
    /\ k' = 0
    /\ pool_results' = EmptyDict
    /\ merged' = EmptyDict
    /\ merged_keys' = << >>
    /\ log' = {}
    /\ pool_key' = ""
    /\ ResetPoolLocals
    /\ response' = None
    /\ issued' = {}
    /\ table' = None
    /\ csv' = None
    /\ pc' = "start_date"
    /\ UNCHANGED << entry, args, chain, in_menu, stdout, stderr, exit_code >>

\* the key prompts are over once an analysis starts
ForgetKeyPrompt ==
    /\ new_key' = ""
    /\ valid' = ""
    /\ save_anyway' = ""
    /\ UNCHANGED << CONFIG_FILE, api_key, fn, attempts, saved >>

\* menu choice 1: run_analysis(api_key) up to its try block, or up to "Cancelled."
menu_run_analysis ==
    /\ pc = "menu"
    /\ rounds < MaxRounds
    /\ rounds' = rounds + 1
    /\ \E line \in PoolLines, custom \in CustomAnswers, date_choice \in {"1", "6", "x"},
          confirm \in YesNoLines, export \in BOOLEAN :
         IF date_choice = "6" /\ lower(strip(confirm)) # "y"
         THEN UNCHANGED << entry, args, key_vars, in_menu, used_key, export_file, out_vars,
                           analysis_vars, pc >>
         ELSE /\ CallAnalyzeTornadoCash(select_pools(line, custom), date_choice # "6", TRUE,
                                        export)
              /\ ForgetKeyPrompt

\* menu choice 2: reset_api_key()
menu_change_key ==
    /\ pc = "menu"
    /\ rounds < MaxRounds
    /\ rounds' = rounds + 1
    /\ fn' = "reset_api_key"
    /\ pc' = "reset_api_key"
    /\ UNCHANGED << entry, args, CONFIG_FILE, api_key, new_key, valid, save_anyway, attempts,
                    saved, in_menu, used_key, export_file, out_vars, analysis_vars >>

\* menu choice 3: the loop is left and main returns
menu_exit ==
    /\ pc = "menu"
    /\ rounds < MaxRounds
    /\ rounds' = rounds + 1
    /\ exit_code' = Some(0)
    /\ pc' = "exited"
    /\ UNCHANGED << entry, args, key_vars, in_menu, used_key, export_file, stdout, stderr,
                    table, csv, analysis_vars >>

\* any other menu line: "Invalid option"
menu_invalid ==
    /\ pc = "menu"
    /\ rounds < MaxRounds
    /\ rounds' = rounds + 1
    /\ UNCHANGED << entry, args, key_vars, in_menu, used_key, export_file, out_vars,
                    analysis_vars, pc >>

\* main, command-line mode, up to its try block
cli_begin ==
    /\ pc = "cli"
    /\ CallAnalyzeTornadoCash(ParsePools(args.pools), TRUE, TRUE, args.export)
    /\ ForgetKeyPrompt
    /\ UNCHANGED rounds

\* the try block ended without an exception: main prints the footer and returns,
\* interactive_mode waits for Enter and shows the menu again
try_done ==
    /\ pc = "try_done"
    /\ pc' = IF in_menu THEN "menu" ELSE "exited"
    /\ exit_code' = IF in_menu THEN exit_code ELSE Some(0)
    /\ UNCHANGED << entry, args, key_vars, in_menu, rounds, used_key, export_file, stdout,
                    stderr, table, csv, analysis_vars >>

\* mutant: the error is printed and main returns normally
main_except_returns ==
    /\ entry = "main"
    /\ pc = "raised"
    /\ ~in_menu
    /\ stderr' = Append(stderr, "Error")
    /\ exit_code' = Some(0)
    /\ pc' = "exited"
    /\ UNCHANGED << entry, args, key_vars, in_menu, rounds, used_key, export_file, stdout,
                    table, csv, analysis_vars >>

\* main: except Exception: print(..., file=sys.stderr); sys.exit(1)
main_except ==
    /\ entry = "main"
    /\ pc = "raised"
    /\ ~in_menu
    /\ stderr' = Append(stderr, "Error")
    /\ exit_code' = Some(1)
    /\ pc' = "exited"
    /\ UNCHANGED << entry, args, key_vars, in_menu, rounds, used_key, export_file, stdout,
                    table, csv, analysis_vars >>

\* run_analysis: except Exception: print(...); back in interactive_mode
run_analysis_except ==
    /\ entry = "main"
    /\ pc = "raised"
    /\ in_menu
    /\ stdout' = Append(stdout, "Error")
    /\ pc' = "menu"
    /\ UNCHANGED << entry, args, key_vars, in_menu, rounds, used_key, export_file, stderr,
                    exit_code, table, csv, analysis_vars >>

NextMain ==
    \/ main_begin
    \/ get_api_key_stored
    \/ get_api_key_setup
    \/ get_api_key_input
    \/ get_api_key_save_anyway
    \/ reset_api_key_input
    \/ reset_api_key_save_anyway
    \/ menu_run_analysis
    \/ menu_change_key
    \/ menu_exit
    \/ menu_invalid
    \/ cli_begin
    \/ Next
    \/ format_output
    \/ export_csv
    \/ export_csv_raises
    \/ try_done
    \/ main_except
    \/ run_analysis_except

\* ---------------------------------------------------------------- SpecMain
\* the command lines of the model: --reset-key, no date option, and a date option
\* with several --pools values and with or without --export
ArgLines ==
    { [reset_key |-> TRUE, has_date_option |-> FALSE, pools |-> << "1", "10", "100" >>,
       export |-> FALSE],
      [reset_key |-> FALSE, has_date_option |-> FALSE, pools |-> << "1", "10", "100" >>,
       export |-> FALSE],
      [reset_key |-> FALSE, has_date_option |-> TRUE, pools |-> << "1", "10", "100" >>,
       export |-> TRUE],
      [reset_key |-> FALSE, has_date_option |-> TRUE, pools |-> << "10", "5" >>,
       export |-> FALSE] }

\* the chain of a main run: empty, or two withdrawals of the 10 ETH pool
MainRunChains ==
    { NoChain,
      [NoChain EXCEPT
          !["10_eth"]["txlistinternal"] =
              << Tx("0xh", lower(TORNADO_CASH_POOLS["10_eth"].address), "0xaaa", "3", "2") >>,
          !["10_eth"]["txlist"] =
              << Tx("0xh", lower(TORNADO_CASH_POOLS["10_eth"].address), "0xbbb", "1", "1") >>] }

\* the process starts: python tornado_viewer.py <args>, with or without a stored key
InitMain ==
    /\ entry = "main"
    /\ args \in ArgLines
    /\ CONFIG_FILE \in {"", "KEYA"}
    /\ chain \in MainRunChains
    /\ pc = "main"
    /\ selected_pools = << >>
    /\ start_date = FALSE
    /\ end_date = FALSE
    /\ start_block = 0
    /\ end_block = DEFAULT_END_BLOCK
    /\ k = 0
    /\ pool_results = EmptyDict
    /\ merged = EmptyDict
    /\ merged_keys = << >>
    /\ log = {}
    /\ pool_key = ""
    /\ pool_address = ""
    /\ internal_txs = << >>
    /\ normal_txs = << >>
    /\ recipients = EmptyDict
    /\ i = 0
    /\ feed = ""
    /\ all_txs = << >>
    /\ page = 0
    /\ pages = << >>
    /\ response = None
    /\ issued = {}
    /\ api_key = ""
    /\ new_key = ""
    /\ valid = ""
    /\ save_anyway = ""
    /\ export_file = FALSE
    /\ fn = ""
    /\ in_menu = FALSE
    /\ attempts = 0
    /\ rounds = 0
    /\ saved = 0
    /\ used_key = ""
    /\ stdout = << >>
    /\ stderr = << >>
    /\ exit_code = None
    /\ table = None
    /\ csv = None

SpecMain == InitMain /\ [][NextMain]_vars

\* ------------------------------------------------------------- SpecPresent
\* --pools values for the presentation runs
PresentPools ==
    { << "1", "10" >>, << "10", "1" >>, << "1" >>, << "1", "10", "100" >>, << "1", "1" >> }

\* main in command-line mode with --export, from its pool parsing on, with a key
\* stored and an explorer and a file system that answer every request
InitPresent ==
    /\ entry = "main"
    /\ args \in {[reset_key |-> FALSE, has_date_option |-> TRUE, pools |-> tokens,
                  export |-> TRUE] : tokens \in PresentPools}
    /\ CONFIG_FILE = "KEYA"
    /\ api_key = "KEYA"
    /\ chain \in OrderChains
    /\ pc = "cli"
    /\ selected_pools = << >>
    /\ start_date = FALSE
    /\ end_date = FALSE
    /\ start_block = 0
    /\ end_block = DEFAULT_END_BLOCK
    /\ k = 0
    /\ pool_results = EmptyDict
    /\ merged = EmptyDict
    /\ merged_keys = << >>
    /\ log = {}
    /\ pool_key = ""
    /\ pool_address = ""
    /\ internal_txs = << >>
    /\ normal_txs = << >>
    /\ recipients = EmptyDict
    /\ i = 0
    /\ feed = ""
    /\ all_txs = << >>
    /\ page = 0
    /\ pages = << >>
    /\ response = None
    /\ issued = {}
    /\ new_key = ""
    /\ valid = ""
    /\ save_anyway = ""
    /\ export_file = FALSE
    /\ fn = ""
    /\ in_menu = FALSE
    /\ attempts = 0
    /\ rounds = 0
    /\ saved = 0
    /\ used_key = ""
    /\ stdout = << >>
    /\ stderr = << >>
    /\ exit_code = None
    /\ table = None
    /\ csv = None

NextPresent ==
    \/ cli_begin
    \/ NextOrder
    \/ format_output
    \/ export_csv
    \/ try_done

SpecPresent == InitPresent /\ [][NextPresent]_vars

\* ================================================================ claims
\* the list the explorer holds for the fetch under way
FetchList == Served(pool_address, feed)

\* C9: the pages of a fetch are requested in the order 1, 2, 3, ...; page N+1 is
\* requested iff page N returned exactly `offset` entries; a page with fewer
\* entries (an empty page too) is the last page requested.
C9_PageOrder ==
    entry \in FetchEntries =>
      /\ \A n \in 1..Len(pages) : pages[n] = n
      /\ \A n \in 1..(Len(pages) - 1) : Len(PageOf(FetchList, n)) = offset
      /\ pc = "fetch" =>
            /\ page = Len(pages) + 1
            /\ \A n \in 1..Len(pages) : Len(PageOf(FetchList, n)) = offset
      /\ pc = "fetched" =>
            /\ Len(pages) >= 1
            /\ Len(PageOf(FetchList, Len(pages))) < offset

\* two full pages, then a short one that ends the fetch
C9_Witness ==
    /\ entry \in FetchEntries
    /\ pc = "fetched"
    /\ pages = << 1, 2, 3 >>
    /\ Len(FetchList) = 2 * offset

\* C10: against an explorer that serves a fixed list of n transactions without
\* error, the fetch terminates and returns the n transactions once each, in page
\* order, also when n is a multiple of `offset` (the page past the end is empty).
C10_FetchReturnsAll == <>(pc = "fetched" /\ all_txs = FetchList)

\* n is a multiple of the page size: the fetch ended on the empty page
C10_Witness ==
    /\ pc = "fetched"
    /\ Len(FetchList) = 2 * offset
    /\ all_txs = FetchList
    /\ Len(pages) = 3


\* the receiver a transaction is booked under: its lower-cased "to", or the
\* sentinel when "to" is absent
ReceiverOf(tx) == IF tx.to = "" THEN "contract_creation" ELSE lower(tx.to)

\* the transaction is sent by pool address P, whatever the letter case, with value > 0
SentByPool(tx, P) == lower(tx.from) = lower(P) /\ int(tx.value) > 0

\* the indices of list L whose transaction is a withdrawal of P to receiver r
WithdrawalsTo(L, P, r) ==
    {n \in DOMAIN L : SentByPool(L[n], P) /\ ReceiverOf(L[n]) = r}

\* the receivers of the withdrawals of P in list L
ReceiversIn(L, P) == {ReceiverOf(L[n]) : n \in {m \in DOMAIN L : SentByPool(L[m], P)}}

\* C1: analyze_pool returns a map in which r is present iff some transaction of
\* the normal or the internal list is sent by the pool (any letter case) with
\* value > 0 to receiver r, and r's count is the number of such transactions over
\* both lists; other senders and zero values contribute to no recipient.
C1_PoolMap ==
    (entry = "analyze_pool" /\ pc = "returned") =>
      LET P == TORNADO_CASH_POOLS[pool_key].address
      IN /\ normal_txs = chain[pool_key]["txlist"]
         /\ internal_txs = chain[pool_key]["txlistinternal"]
         /\ DOMAIN recipients = ReceiversIn(normal_txs, P) \cup ReceiversIn(internal_txs, P)
         /\ \A r \in DOMAIN recipients :
               recipients[r].count = Cardinality(WithdrawalsTo(normal_txs, P, r))
                                     + Cardinality(WithdrawalsTo(internal_txs, P, r))

\* one withdrawal in each feed to the same receiver, the sender spelled in two cases
C1_Witness ==
    /\ entry = "analyze_pool"
    /\ pc = "returned"
    /\ Len(normal_txs) = 1
    /\ Len(internal_txs) = 1
    /\ normal_txs[1].from # internal_txs[1].from
    /\ normal_txs[1].to # internal_txs[1].to
    /\ "0xaaa" \in DOMAIN recipients
    /\ recipients["0xaaa"].count = 2

RECURSIVE SumValueWei(_)
SumValueWei(txs) == IF txs = << >> THEN 0 ELSE txs[1].value_wei + SumValueWei(Tail(txs))

\* count == len(transactions) and total_wei == sum(value_wei) in every entry of map m
EntriesConsistent(m) ==
    \A r \in DOMAIN m :
        /\ m[r].count = Len(m[r].transactions)
        /\ m[r].total_wei = SumValueWei(m[r].transactions)

\* C2: in every recipient entry, after every step of the accumulation loops and in
\* the map analyze_pool returns, count is the length of the transactions list and
\* total_wei is the sum of value_wei over it.
C2_CountAndTotal ==
    /\ EntriesConsistent(recipients)
    /\ \A key \in DOMAIN pool_results : EntriesConsistent(pool_results[key])

\* after an iteration of the second loop, an entry that both loops have added to
C2_Witness ==
    /\ pc = "accumulate"
    /\ i = 3
    /\ \E r \in DOMAIN recipients :
          /\ recipients[r].count = 2
          /\ recipients[r].total_wei = 4
          /\ recipients[r].transactions[1].type = "normal"
          /\ recipients[r].transactions[2].type = "internal"


\* ---------------------------------------------- claims on the merged map
\* the four fields of pool P in a merged record
PoolFields(m, P) ==
    CASE P = "1_eth" ->
           [count |-> m.1_eth_count, total |-> m.1_eth_total,
            first_date |-> m.1_eth_first_date, last_date |-> m.1_eth_last_date]
      [] P = "10_eth" ->
           [count |-> m.10_eth_count, total |-> m.10_eth_total,
            first_date |-> m.10_eth_first_date, last_date |-> m.10_eth_last_date]
      [] P = "100_eth" ->
           [count |-> m.100_eth_count, total |-> m.100_eth_total,
            first_date |-> m.100_eth_first_date, last_date |-> m.100_eth_last_date]

\* an ether amount of the model, in the model's wei
InWei(e) == e.whole * WEI_TO_ETH + e.frac

\* recipient a has an entry in the kept result of selected pool P
InPool(P, a) ==
    /\ P \in Range(selected_pools)
    /\ P \in DOMAIN pool_results
    /\ a \in DOMAIN pool_results[P]

\* the cumulative wei of recipient a in pool P (0 when P is not selected or holds
\* no withdrawal to a)
WeiIn(P, a) == IF InPool(P, a) THEN pool_results[P][a].total_wei ELSE 0

\* C3: for every recipient of the merged map, each per-pool total is the pool's
\* cumulative wei for the recipient divided by WEI_TO_ETH (0 for a pool that is not
\* selected or has no withdrawal to it) and grand_total is the sum of the three.
C3_GrandTotal ==
    \A a \in DOMAIN merged :
        LET m == merged[a]
        IN /\ \A P \in PoolKeys :
                 /\ InWei(PoolFields(m, P).total) = WeiIn(P, a)
                 /\ PoolFields(m, P).total.frac \in 0..(WEI_TO_ETH - 1)
           /\ InWei(m.grand_total) = WeiIn("1_eth", a) + WeiIn("10_eth", a) + WeiIn("100_eth", a)
           /\ m.grand_total.frac \in 0..(WEI_TO_ETH - 1)

\* a recipient paid by all three pools, the fractions adding up with a carry
C3_Witness ==
    /\ pc = "returned"
    /\ \E a \in DOMAIN merged :
          /\ merged[a].1_eth_total = ToEth(1)
          /\ merged[a].10_eth_total = ToEth(3)
          /\ merged[a].100_eth_total = ToEth(1)
          /\ merged[a].grand_total = [whole |-> 2, frac |-> 1]

\* the timestamps of the withdrawals to a that pool P's kept result lists
TsIn(P, a) ==
    IF InPool(P, a)
    THEN {pool_results[P][a].transactions[n].timestamp :
             n \in DOMAIN pool_results[P][a].transactions}
    ELSE {}

\* the earliest and the latest of a set of dates
EarliestDate(D) == CHOOSE d \in D : \A e \in D : d.local <= e.local
LatestDate(D) == CHOOSE d \in D : \A e \in D : e.local <= d.local

\* the dates among the optional dates S that are not None
Present(S) == {d[1] : d \in {o \in S : o # None}}

ChainTxs(P) == chain[P]["txlist"] \o chain[P]["txlistinternal"]

\* pool P is selected and its analysis did not fail
Contributes(P) == P \in Range(selected_pools) /\ P \notin log

\* the timestamps of the withdrawals of P to a on the chain, when P contributes
ChainTs(P, a) ==
    IF Contributes(P)
    THEN {int(ChainTxs(P)[n].timeStamp) :
             n \in WithdrawalsTo(ChainTxs(P), TORNADO_CASH_POOLS[P].address, a)}
    ELSE {}

\* C5: for every recipient of the merged map and every pool P: with no withdrawal
\* in P (or P not selected, or P's analysis failed) P's count and total are 0 and
\* its dates null; otherwise P's dates are the min and max of the recipient's
\* timestamps in P.  A recipient of one pool only has that pool's dates as its
\* aggregate dates.
C5_PerPoolFields ==
    \A a \in DOMAIN merged : \A P \in PoolKeys :
        LET f == PoolFields(merged[a], P)
            T == ChainTs(P, a)
        IN /\ T = {} => /\ f.count = 0
                        /\ InWei(f.total) = 0
                        /\ f.first_date = None
                        /\ f.last_date = None
           /\ T # {} => /\ f.count > 0
                        /\ f.first_date = Some(fromtimestamp(SetMin(T)))
                        /\ f.last_date = Some(fromtimestamp(SetMax(T)))
           /\ (\A Q \in PoolKeys \ {P} : ChainTs(Q, a) = {}) =>
                 /\ merged[a].first_date = f.first_date
                 /\ merged[a].last_date = f.last_date

\* all pools selected; the 1 ETH pool pays the recipient on the chain but its
\* analysis failed, the 100 ETH pool pays others: only the 10 ETH dates are set
C5_Witness ==
    /\ pc = "returned"
    /\ Len(selected_pools) = 3
    /\ \E a \in DOMAIN merged :
          /\ "1_eth" \in log
          /\ \E n \in DOMAIN ChainTxs("1_eth") : ReceiverOf(ChainTxs("1_eth")[n]) = a
          /\ merged[a].1_eth_first_date = None
          /\ merged[a].100_eth_first_date = None
          /\ merged[a].10_eth_first_date # None
          /\ merged[a].first_date = merged[a].10_eth_first_date

\* the recipient keys of the result analyze_pool gave for P
ResultKeys(P) == IF P \in DOMAIN pool_results THEN DOMAIN pool_results[P] ELSE {}

\* C6: the keys of the map analyze_tornado_cash returns are the union, over the
\* selected pools, of the keys of each pool's analyze_pool result; an empty
\* selection gives an empty map.
C6_KeyUnion ==
    (entry = "analyze_tornado_cash" /\ pc = "returned") =>
        /\ DOMAIN merged = UNION {ResultKeys(P) : P \in Range(selected_pools)}
        /\ DOMAIN merged =
              UNION {ReceiversIn(ChainTxs(P), TORNADO_CASH_POOLS[P].address) :
                        P \in {Q \in PoolKeys : Contributes(Q)}}
        /\ selected_pools = << >> => merged = EmptyDict

\* two selected pools with different recipients, and a third pool, not selected,
\* that pays too
C6_Witness ==
    /\ pc = "returned"
    /\ selected_pools = << "1_eth", "10_eth" >>
    /\ ResultKeys("1_eth") = {"0xaaa"}
    /\ ResultKeys("10_eth") = {"0xbbb"}
    /\ ChainTxs("100_eth") # << >>
    /\ DOMAIN merged = {"0xaaa", "0xbbb"}

\* C7: a fetch failure in a selected pool (either feed, any page) leaves that pool
\* with an empty result, every other selected pool is still analysed, and
\* analyze_tornado_cash returns the merge of the other pools: no fetch failure
\* makes it raise.
C7_PoolFailureContained ==
    entry = "analyze_tornado_cash" =>
        /\ \A P \in log : P \in DOMAIN pool_results /\ pool_results[P] = EmptyDict
        /\ pc = "raised" => issued \cap Feeds = {}
        /\ pc \in {"merge", "returned"} =>
              \A n \in 1..Len(selected_pools) :
                 LET P == selected_pools[n]
                 IN P \in PoolKeys =>
                      /\ P \in DOMAIN pool_results
                      /\ P \notin log =>
                            DOMAIN pool_results[P] =
                               ReceiversIn(ChainTxs(P), TORNADO_CASH_POOLS[P].address)
        /\ pc = "returned" =>
              \A a \in DOMAIN merged : \A P \in log : PoolFields(merged[a], P).count = 0

\* the first pool failed after its internal feed was there to fetch; the second
\* pool was analysed all the same and the merged map holds its recipient
C7_Witness ==
    /\ pc = "returned"
    /\ selected_pools = << "1_eth", "10_eth" >>
    /\ log = {"1_eth"}
    /\ chain["1_eth"]["txlistinternal"] # << >>
    /\ pool_results["1_eth"] = EmptyDict
    /\ pool_results["10_eth"] # EmptyDict
    /\ merged # EmptyDict

\* C8: when the block lookup for the start or the end date fails,
\* analyze_tornado_cash raises before any pool transaction fetch is issued and
\* leaves no merged map; a fetch is issued only once every lookup asked for has
\* given its block.
C8_LookupFailureAborts ==
    entry = "analyze_tornado_cash" =>
        /\ pc = "raised" =>
              /\ issued = {"getblocknobytime"}
              /\ pool_results = EmptyDict
              /\ merged = EmptyDict
              /\ k = 0
              /\ ~ENABLED Next
        /\ (issued \cap Feeds # {} \/ pc \in {"pools", "fetch", "merge", "returned"}) =>
              /\ start_date => start_block = 1
              /\ ~start_date => start_block = 0
              /\ end_date => end_block = 3
              /\ ~end_date => end_block = DEFAULT_END_BLOCK

\* the start lookup gave its block and the end lookup failed
C8_Witness ==
    /\ pc = "raised"
    /\ start_date
    /\ end_date
    /\ start_block = 1
    /\ end_block = DEFAULT_END_BLOCK

\* ------------------------------------------- claims on a failing explorer
\* the request itself failed: no usable HTTP answer
RequestFailed(d) == ~d.http_ok

\* the answer carries an error status: not the success status "1" and not the
\* "No transactions found" message
ErrorStatus(d) == d.http_ok /\ d.status # "1" /\ d.message # "No transactions found"

\* the answer is the non-success "No transactions found" one
NoData(d) == d.http_ok /\ d.status # "1" /\ d.message = "No transactions found"

\* what the fetch had collected before its last request: the full pages before it
CollectedBefore == SubSeq(FetchList, 1, (Len(pages) - 1) * offset)

\* C11: a fetch raises when a page fails, by a failed request or by an error
\* status; once it has raised nothing more runs, so the pages retrieved before
\* are never returned, and a fetch that does return returns the whole list.
C11_FetchRaises ==
    entry \in FetchEntries =>
        /\ (response # None /\ (RequestFailed(response[1]) \/ ErrorStatus(response[1])))
              => pc = "raised"
        /\ pc = "raised" => ~ENABLED NextFetch
        /\ pc = "fetched" => all_txs = FetchList

\* the first page was retrieved and the second answered with an error status
C11_Witness ==
    /\ entry \in FetchEntries
    /\ pc = "raised"
    /\ pages = << 1, 2 >>
    /\ Len(all_txs) = offset
    /\ ErrorStatus(response[1])

\* C12: for an answer that arrived, _make_request raises iff the status is not
\* "1" and the message is not "No transactions found"; the non-success answer
\* with that message is returned and ends the fetch with what it had collected.
C12_RaisesExactlyOnErrorStatus ==
    (entry \in FetchEntries /\ response # None /\ response[1].http_ok) =>
        /\ pc = "raised" <=> (response[1].status # "1"
                               /\ response[1].message # "No transactions found")
        /\ NoData(response[1]) => /\ pc = "fetched"
                                   /\ all_txs = CollectedBefore

\* a full page, then the "No transactions found" answer: the fetch returns the page
C12_Witness ==
    /\ entry \in FetchEntries
    /\ pc = "fetched"
    /\ response # None
    /\ NoData(response[1])
    /\ pages = << 1, 2 >>
    /\ Len(all_txs) = offset

\* --------------------------------------------- claims on absent receivers
\* the withdrawals of P in list L that name no receiver, in L's order
AbsentTo(L, P) == SelectSeq(L, LAMBDA tx : SentByPool(tx, P) /\ tx.to = "")

RECURSIVE SumValue(_)
SumValue(L) == IF L = << >> THEN 0 ELSE int(L[1].value) + SumValue(Tail(L))

\* C13: the withdrawals without a receiver are all booked under
\* "contract_creation", each with its value and timestamp, none is dropped or
\* booked under an empty key, and the accumulation never stops on one.
C13_ContractCreation ==
    entry = "analyze_pool" =>
        /\ pc = "accumulate" => ENABLED NextPool
        /\ pc = "returned" =>
              LET P == TORNADO_CASH_POOLS[pool_key].address
                  sent == AbsentTo(normal_txs, P) \o AbsentTo(internal_txs, P)
              IN /\ "" \notin DOMAIN recipients
                 /\ sent = << >> => "contract_creation" \notin DOMAIN recipients
                 /\ sent # << >> =>
                       /\ "contract_creation" \in DOMAIN recipients
                       /\ LET e == recipients["contract_creation"]
                          IN /\ e.count = Len(sent)
                             /\ e.total_wei = SumValue(sent)
                             /\ Len(e.transactions) = Len(sent)
                             /\ \A n \in 1..Len(sent) :
                                   /\ e.transactions[n].value_wei = int(sent[n].value)
                                   /\ e.transactions[n].timestamp = int(sent[n].timeStamp)

\* a normal and an internal withdrawal without receiver, both under the sentinel
C13_Witness ==
    /\ entry = "analyze_pool"
    /\ pc = "returned"
    /\ Len(normal_txs) = 1
    /\ Len(internal_txs) = 1
    /\ normal_txs[1].to = ""
    /\ internal_txs[1].to = ""
    /\ "contract_creation" \in DOMAIN recipients
    /\ recipients["contract_creation"].count = 2
    /\ recipients["contract_creation"].total_wei = 4

\* ------------------------------------ claims on order and on repetition
\* how often transaction tx occurs on the chain of pool P, in either feed
TxCount(P, tx) == Cardinality({n \in DOMAIN ChainTxs(P) : ChainTxs(P)[n] = tx})

\* the distinct withdrawals of P to receiver a
WithdrawalSet(P, a) ==
    {tx \in Range(ChainTxs(P)) :
        SentByPool(tx, TORNADO_CASH_POOLS[P].address) /\ ReceiverOf(tx) = a}

\* the number and the wei of the transactions of S, each weighted by its
\* number of occurrences on the chain of P
RECURSIVE BagCount(_, _)
BagCount(S, P) ==
    IF S = {} THEN 0
    ELSE LET tx == CHOOSE x \in S : TRUE IN TxCount(P, tx) + BagCount(S \ {tx}, P)

RECURSIVE BagWei(_, _)
BagWei(S, P) ==
    IF S = {} THEN 0
    ELSE LET tx == CHOOSE x \in S : TRUE
         IN TxCount(P, tx) * int(tx.value) + BagWei(S \ {tx}, P)

\* the pools named at least once in the selection
SelectedSet == Range(selected_pools) \cap PoolKeys

\* the distinct withdrawals to a of pool P, if P is selected
SelectedWithdrawals(P, a) == IF P \in SelectedSet THEN WithdrawalSet(P, a) ELSE {}

\* the four fields of pool P for receiver a, from the set of selected pools and
\* the multiset of P's transactions alone
FieldsOfBag(P, a) ==
    LET S == SelectedWithdrawals(P, a)
        T == {int(tx.timeStamp) : tx \in S}
    IN [count |-> BagCount(S, P),
        total |-> ToEth(BagWei(S, P)),
        first_date |-> IF T = {} THEN None ELSE Some(fromtimestamp(SetMin(T))),
        last_date |-> IF T = {} THEN None ELSE Some(fromtimestamp(SetMax(T)))]

\* the merged map as the set of selected pools and the multisets determine it
MergedOfBags ==
    LET keys == UNION {{ReceiverOf(tx) : tx \in
                          {x \in Range(ChainTxs(P)) :
                              SentByPool(x, TORNADO_CASH_POOLS[P].address)}} : P \in SelectedSet}
    IN [a \in keys |->
          LET f1 == FieldsOfBag("1_eth", a)
              f10 == FieldsOfBag("10_eth", a)
              f100 == FieldsOfBag("100_eth", a)
              T == UNION {{int(tx.timeStamp) : tx \in WithdrawalSet(P, a)} : P \in SelectedSet}
          IN [1_eth_count |-> f1.count, 1_eth_total |-> f1.total,
              1_eth_first_date |-> f1.first_date, 1_eth_last_date |-> f1.last_date,
              10_eth_count |-> f10.count, 10_eth_total |-> f10.total,
              10_eth_first_date |-> f10.first_date, 10_eth_last_date |-> f10.last_date,
              100_eth_count |-> f100.count, 100_eth_total |-> f100.total,
              100_eth_first_date |-> f100.first_date, 100_eth_last_date |-> f100.last_date,
              grand_total |-> ToEth(BagWei(SelectedWithdrawals("1_eth", a), "1_eth")
                                    + BagWei(SelectedWithdrawals("10_eth", a), "10_eth")
                                    + BagWei(SelectedWithdrawals("100_eth", a), "100_eth")),
              first_date |-> IF T = {} THEN None ELSE Some(fromtimestamp(SetMin(T))),
              last_date |-> IF T = {} THEN None ELSE Some(fromtimestamp(SetMax(T)))]]

\* C14: the map analyze_tornado_cash returns is the one the set of selected pools
\* and the multiset of each pool's transactions determine: the order within a
\* feed, the feed a transaction sits in and the order of the selection do not
\* enter it.
C14_OrderIndependent ==
    (entry = "analyze_tornado_cash" /\ pc = "returned" /\ log = {}) =>
        merged = MergedOfBags

\* the selection in descending order, the 1 ETH pool with the later withdrawal
\* in the normal feed and the earlier one in the internal feed
C14_Witness ==
    /\ pc = "returned"
    /\ selected_pools = << "10_eth", "1_eth" >>
    /\ Len(chain["1_eth"]["txlist"]) = 1
    /\ Len(chain["1_eth"]["txlistinternal"]) = 1
    /\ chain["1_eth"]["txlist"][1].timeStamp = "2"
    /\ chain["1_eth"]["txlistinternal"][1].timeStamp = "1"
    /\ "0xaaa" \in DOMAIN merged
    /\ merged["0xaaa"].1_eth_count = 2
    /\ merged["0xaaa"].first_date = Some(fromtimestamp(1))

\* the wei of the withdrawals of P to a on the chain, each counted once, when P
\* is named in the selection (once or more)
RECURSIVE SumAt(_, _)
SumAt(L, N) ==
    IF N = {} THEN 0
    ELSE LET n == CHOOSE x \in N : TRUE IN int(L[n].value) + SumAt(L, N \ {n})

OnceWei(P, a) ==
    IF P \in Range(selected_pools)
    THEN SumAt(ChainTxs(P), WithdrawalsTo(ChainTxs(P), TORNADO_CASH_POOLS[P].address, a))
    ELSE 0

OnceCount(P, a) ==
    IF P \in Range(selected_pools)
    THEN Cardinality(WithdrawalsTo(ChainTxs(P), TORNADO_CASH_POOLS[P].address, a))
    ELSE 0

\* the selection names some pool more than once
NamesTwice == Len(selected_pools) > Cardinality(Range(selected_pools))

\* C19: with a pool named more than once in the selection, each withdrawal still
\* enters every count, total and date once; the pool is fetched again for each
\* occurrence.
C19_RepeatedPool ==
    (entry = "analyze_tornado_cash" /\ NamesTwice /\ log = {}) =>
        /\ pc = "fetch" => /\ k \in 1..Len(selected_pools)
                            /\ pool_key = selected_pools[k]
                            /\ \A n \in 1..(k - 1) : selected_pools[n] \in DOMAIN pool_results
        /\ pc = "returned" =>
              \A a \in DOMAIN merged :
                 /\ \A P \in PoolKeys :
                       LET f == PoolFields(merged[a], P)
                       IN /\ f.count = OnceCount(P, a)
                          /\ f.total = ToEth(OnceWei(P, a))
                          /\ f.first_date = IF ChainTs(P, a) = {} THEN None
                                             ELSE Some(fromtimestamp(SetMin(ChainTs(P, a))))
                          /\ f.last_date = IF ChainTs(P, a) = {} THEN None
                                            ELSE Some(fromtimestamp(SetMax(ChainTs(P, a))))
                 /\ merged[a].grand_total =
                       ToEth(OnceWei("1_eth", a) + OnceWei("10_eth", a) + OnceWei("100_eth", a))

\* --pools 1,1: the one withdrawal of the 1 ETH pool is counted once
C19_Witness ==
    /\ pc = "returned"
    /\ selected_pools = << "1_eth", "1_eth" >>
    /\ k = 3
    /\ Len(ChainTxs("1_eth")) = 1
    /\ "0xaaa" \in DOMAIN merged
    /\ merged["0xaaa"].1_eth_count = 1
    /\ merged["0xaaa"].grand_total = ToEth(3)

\* ------------------------------------------------ claims on the two outputs
\* both outputs of one analysis are there
BothWritten == entry = "main" /\ table # None /\ csv # None

\* the number a table cell shows, in the model's wei
ShownUnits(t) == t * WEI_TO_ETH

\* row n of the table and of the CSV name the same recipient with the same
\* count in every selected pool
SameRecipientAndCounts(n) ==
    /\ table[1][n].address = csv[1][n].address
    /\ DOMAIN table[1][n].pools = Columns(selected_pools)
    /\ DOMAIN csv[1][n].pools = Columns(selected_pools)
    /\ \A P \in Columns(selected_pools) :
          /\ table[1][n].pools[P].count = csv[1][n].pools[P].count
          /\ csv[1][n].pools[P].count = PoolFields(merged[csv[1][n].address], P).count

\* C18 as claimed: the table and the CSV list the same recipients in the same
\* order with the same counts and the same per-pool and aggregate totals.
C18_SameTotals ==
    BothWritten =>
        /\ Len(table[1]) = Len(csv[1])
        /\ \A n \in 1..Len(csv[1]) :
              /\ SameRecipientAndCounts(n)
              /\ \A P \in Columns(selected_pools) :
                    ShownUnits(table[1][n].pools[P].total) = Units(csv[1][n].pools[P].total)
              /\ ShownUnits(table[1][n].grand_total) = Units(csv[1][n].grand_total)

\* C18, amended: same recipients (all of the merged map, none filtered out), same
\* order by descending aggregate total, same counts; every total of the table is
\* the CSV's total rounded to the table's last digit.
C18_SameUpToRounding ==
    BothWritten =>
        /\ Len(table[1]) = Len(csv[1])
        /\ Len(csv[1]) = Cardinality(DOMAIN merged)
        /\ {csv[1][n].address : n \in 1..Len(csv[1])} = DOMAIN merged
        /\ \A n \in 1..Len(csv[1]) :
              /\ SameRecipientAndCounts(n)
              /\ csv[1][n].grand_total = merged[csv[1][n].address].grand_total
              /\ \A P \in Columns(selected_pools) :
                    /\ csv[1][n].pools[P].total = PoolFields(merged[csv[1][n].address], P).total
                    /\ 2 * (ShownUnits(table[1][n].pools[P].total)
                            - Units(csv[1][n].pools[P].total)) \in (-WEI_TO_ETH)..WEI_TO_ETH
              /\ 2 * (ShownUnits(table[1][n].grand_total)
                      - Units(csv[1][n].grand_total)) \in (-WEI_TO_ETH)..WEI_TO_ETH
        /\ \A n \in 1..Len(csv[1]) : \A m \in n..Len(csv[1]) :
              Units(csv[1][n].grand_total) >= Units(csv[1][m].grand_total)

\* two recipients, the one merged last listed first, with a total that the
\* table rounds
C18_Witness ==
    /\ BothWritten
    /\ pc = "try_done"
    /\ Len(csv[1]) = 2
    /\ merged_keys[1] = csv[1][2].address
    /\ Units(csv[1][1].grand_total) > Units(csv[1][2].grand_total)
    /\ ShownUnits(table[1][1].grand_total) # Units(csv[1][1].grand_total)

\* ------------------------------------------------- claims on the API key
\* the step wrote the credential store
Written == saved' # saved

\* the key of the prompt just answered was accepted: validation said valid, or
\* it could not tell and the user answered "y" to saving anyway
Accepted == valid' = "True" \/ (valid' = "None" /\ save_anyway' = "y")

\* C15: every write of the credential store stores a newly entered, non-empty key
\* that was accepted; a step that does not write leaves the stored key as it is,
\* so an invalid key, an empty entry, a cancelled reset and a declined
\* save-anyway change nothing.
C15_WrittenOnlyWhenAccepted ==
    [][/\ Written => /\ fn \in {"get_api_key", "reset_api_key"}
                     /\ saved' = saved + 1
                     /\ new_key' # ""
                     /\ CONFIG_FILE' = new_key'
                     /\ Accepted
       /\ ~Written => CONFIG_FILE' = CONFIG_FILE
       /\ (fn # "" /\ ~Accepted) => ~Written]_vars

\* get_api_key: a first entry was turned down, the second could not be validated
\* and was saved on "y"
C15_Witness ==
    /\ entry = "main"
    /\ attempts = 2
    /\ saved = 1
    /\ valid = "None"
    /\ save_anyway = "y"
    /\ new_key = "KEYB"
    /\ CONFIG_FILE = "KEYB"

\* the positions of a run inside a try block, from the call of
\* analyze_tornado_cash on
InTry ==
    pc \in {"start_date", "end_date", "pools", "fetch", "fetched", "accumulate", "merge",
            "returned", "export_csv", "try_done", "raised"}

\* C20: an analysis runs with the stored key, get_api_key returns the stored key,
\* and at the menu and at the start of the command-line run api_key is the
\* stored key, whatever "Change API Key" rounds came before.
C20_KeyInUseIsStored ==
    /\ [](entry = "main" =>
            /\ InTry => (used_key = CONFIG_FILE /\ used_key # "" /\ api_key = used_key)
            /\ pc \in {"menu", "cli"} => (api_key = CONFIG_FILE /\ api_key # ""))
    /\ [][(fn = "get_api_key" /\ fn' = "") =>
             (api_key' = CONFIG_FILE' /\ api_key' # "")]_vars

\* the stored key was replaced by "Change API Key" and the next analysis uses
\* the new one
C20_Witness ==
    /\ entry = "main"
    /\ in_menu
    /\ pc = "start_date"
    /\ rounds = 2
    /\ attempts = 0
    /\ saved = 1
    /\ used_key = "KEYC"
    /\ CONFIG_FILE = "KEYC"

\* --------------------------------------------- claims on errors and modes
\* C16 as claimed: on every path an error that leaves analyze_tornado_cash, or
\* the output after it, is printed to the error stream and ends the process
\* with a non-zero code.
C16_EveryErrorExits ==
    [][(entry = "main" /\ pc = "raised") =>
          /\ stderr' = Append(stderr, "Error")
          /\ exit_code' # None
          /\ exit_code' # Some(0)]_vars

\* C16, amended: in command-line mode such an error is printed to the error
\* stream and the process exits with code 1; in interactive mode run_analysis
\* prints it to standard output and the menu goes on, with nothing on the error
\* stream and no exit.  A pool's fetch error never gets that far.
C16_ErrorsByMode ==
    /\ [][(entry = "main" /\ pc = "raised") =>
             IF in_menu
             THEN /\ stdout' = Append(stdout, "Error")
                  /\ stderr' = stderr
                  /\ exit_code' = None
                  /\ pc' = "menu"
             ELSE /\ stderr' = Append(stderr, "Error")
                  /\ stdout' = stdout
                  /\ exit_code' = Some(1)
                  /\ pc' = "exited"]_vars
    /\ [](entry = "main" =>
            /\ pc = "raised" => (issued \cap Feeds = {} \/ table # None)
            /\ (exit_code # None /\ exit_code # Some(0)) => (~in_menu /\ stderr # << >>)
            /\ in_menu => stderr = << >>)

\* interactive mode: the analysis raised, the error went to standard output and
\* the menu is shown again
C16_Witness ==
    /\ entry = "main"
    /\ in_menu
    /\ pc = "menu"
    /\ stdout = << "Error" >>
    /\ stderr = << >>
    /\ exit_code = None
    /\ used_key # ""

\* C17 as claimed: with a date-window option given, a missing or unusable key
\* never leads to the key prompt.
C17_NoPromptWithDateOption ==
    (entry = "main" /\ args.has_date_option) => pc \notin {"enter_key", "save_anyway"}

\* C17, amended: get_api_key prompts, and prompts again after an entry that is
\* turned down, whenever no key is stored, with or without a date-window option;
\* no run ends with an error code before an analysis was started, and the
\* command-line run starts with the stored key.
C17_PromptInEveryMode ==
    entry = "main" =>
        /\ (fn = "get_api_key" /\ pc \in {"enter_key", "save_anyway"}) =>
              (CONFIG_FILE = "" /\ exit_code = None)
        /\ (pc = "enter_key" /\ attempts < MaxAttempts) => ENABLED get_api_key_input
        /\ (exit_code # None /\ exit_code # Some(0)) => used_key # ""
        /\ pc = "cli" => (args.has_date_option /\ CONFIG_FILE # "" /\ api_key = CONFIG_FILE)

\* a run with a date-window option and no stored key: an invalid key was
\* entered and the prompt is shown again
C17_Witness ==
    /\ entry = "main"
    /\ args.has_date_option
    /\ pc = "enter_key"
    /\ attempts = 1
    /\ valid = "False"
    /\ CONFIG_FILE = ""
    /\ exit_code = None

====
